---------------------------- MODULE Spec2Model ----------------------------
(***************************************************************************)
(* Model of the crypto moonshot screener (src/src/app/page.tsx): the       *)
(* refresh runs (loadDefault and the debounced search run), the merge of   *)
(* the price, sentiment, on-chain and news responses, calculateScore, the  *)
(* filter predicate and the sort comparator behind the displayed list.     *)
(*                                                                         *)
(* Conventions.                                                            *)
(*  - A JSON object is a function from its keys to their values.  A key    *)
(*    whose value is undefined or null is modelled as an absent key: every *)
(*    read of an optional field in the source goes through `?? 0`.         *)
(*  - Text that the program inspects character by character (names,        *)
(*    symbols, the search box, the filter inputs) is a sequence of         *)
(*    one-character strings.  Identifiers are only compared, and stay      *)
(*    strings.                                                             *)
(*  - Numbers of the records are integers.  The risk bias is kept in       *)
(*    tenths (the slider's step) and the score in 1/ScoreScale units, so   *)
(*    that the arithmetic of calculateScore is exact.                      *)
(***************************************************************************)
EXTENDS Integers, Sequences, FiniteSets, TLC

VARIABLES
    assets,            \* useState<Asset[]>: the stored asset list
    loading,           \* useState<boolean>
    riskBias,          \* useState<number>, in tenths
    search,            \* useState<string>: the search box
    watchlist,         \* useState<Set<string>>
    sortField,         \* useState<string>
    sortDirection,     \* useState<"asc" | "desc">
    filters,           \* useState of the twelve bound texts
    searchTimeoutRef,  \* useRef: handle of the last timer set, 0 for undefined
    timers,            \* pending timeouts of the event loop: handle -> term
    runs,              \* refresh runs: run number -> frame of the async function
    timeoutsSet,       \* number of setTimeout calls so far (the handles given out)
    lastWriter,        \* run whose setAssets call was the last one, 0 if none
    mounted,           \* whether the mount effects have run
    request,           \* the request an API route is handling
    upstream,          \* what CoinGecko answered for each id of the request
    response           \* what the route answered, NoResponse before it has

vars == <<assets, loading, riskBias, search, watchlist, sortField,
          sortDirection, filters, searchTimeoutRef, timers, runs, timeoutsSet,
          lastWriter, mounted, request, upstream, response>>

serverVars == <<request, upstream, response>>
pageVars == <<assets, loading, riskBias, search, watchlist, sortField,
              sortDirection, filters, searchTimeoutRef, timers, runs,
              timeoutsSet, lastWriter, mounted>>
viewVars == <<riskBias, watchlist, sortField, sortDirection, filters>>
runVars == <<searchTimeoutRef, timers, runs, timeoutsSet, lastWriter, mounted>>

-----------------------------------------------------------------------------
(* Bounds of the model.                                                    *)

\* Refresh runs started in one behaviour (the mount effects start two).
MaxRuns == 3
\* Debounce timers set in one behaviour.
MaxTimers == 2
\* Filter bounds that hold a non-empty text at the same time.
MaxActive == 2

-----------------------------------------------------------------------------
(* Text.                                                                   *)

UpperCase == <<"A","B","C","D","E","F","G","H","I","J","K","L","M",
               "N","O","P","Q","R","S","T","U","V","W","X","Y","Z">>
LowerCase == <<"a","b","c","d","e","f","g","h","i","j","k","l","m",
               "n","o","p","q","r","s","t","u","v","w","x","y","z">>
Digits == <<"0","1","2","3","4","5","6","7","8","9">>

IsSpace(c) == c \in {" ", "\t", "\n"}
IsDigit(c) == \E i \in 1..10 : Digits[i] = c
DigitVal(c) == (CHOOSE i \in 1..10 : Digits[i] = c) - 1

\* String.prototype.toLowerCase, one character
LowerChar(c) ==
    IF \E i \in 1..26 : UpperCase[i] = c
    THEN LowerCase[CHOOSE i \in 1..26 : UpperCase[i] = c]
    ELSE c

\* String.prototype.toLowerCase
toLowerCase(s) == [i \in 1..Len(s) |-> LowerChar(s[i])]

RECURSIVE trimStart(_)
trimStart(s) ==
    IF s # <<>> /\ IsSpace(Head(s)) THEN trimStart(Tail(s)) ELSE s

RECURSIVE trimEnd(_)
trimEnd(s) ==
    IF s # <<>> /\ IsSpace(s[Len(s)])
    THEN trimEnd(SubSeq(s, 1, Len(s) - 1))
    ELSE s

\* String.prototype.trim
trim(s) == trimEnd(trimStart(s))

\* String.prototype.includes
includes(s, t) ==
    \E i \in 0..(Len(s) - Len(t)) : SubSeq(s, i + 1, i + Len(t)) = t

\* Position of a character in the collation of lower-case text: the letters
\* in alphabetical order, every other character before them.
CharRank(c) ==
    IF \E i \in 1..26 : LowerCase[i] = c
    THEN CHOOSE i \in 1..26 : LowerCase[i] = c
    ELSE 0

\* String.prototype.localeCompare on lower-cased names: -1, 0 or 1
RECURSIVE localeCompare(_, _)
localeCompare(a, b) ==
    IF a = <<>> /\ b = <<>> THEN 0
    ELSE IF a = <<>> THEN -1
    ELSE IF b = <<>> THEN 1
    ELSE IF CharRank(Head(a)) < CharRank(Head(b)) THEN -1
    ELSE IF CharRank(Head(a)) > CharRank(Head(b)) THEN 1
    ELSE localeCompare(Tail(a), Tail(b))

-----------------------------------------------------------------------------
(* Numbers read from text.  A parsed number is NaN, an infinity, or        *)
(* sign * m * 10^e with m a natural number.                                *)

RECURSIVE Pow10(_)
Pow10(n) == IF n <= 0 THEN 1 ELSE 10 * Pow10(n - 1)

NaN == [kind |-> "nan", sign |-> 1, m |-> 0, e |-> 0]
Infinity(sg) == [kind |-> "inf", sign |-> sg, m |-> 0, e |-> 0]
Finite(sg, mant, ex) == [kind |-> "num", sign |-> sg, m |-> mant, e |-> ex]

\* Length of the longest prefix of s made of digits
RECURSIVE DigitRun(_)
DigitRun(s) ==
    IF s # <<>> /\ IsDigit(Head(s)) THEN 1 + DigitRun(Tail(s)) ELSE 0

\* Value of a sequence of digits
RECURSIVE DigitsValue(_)
DigitsValue(s) ==
    IF s = <<>> THEN 0
    ELSE 10 * DigitsValue(SubSeq(s, 1, Len(s) - 1)) + DigitVal(s[Len(s)])

Drop(s, n) == SubSeq(s, n + 1, Len(s))
Take(s, n) == SubSeq(s, 1, n)
InfinityText == <<"I","n","f","i","n","i","t","y">>

\* The exponent part at the head of s, 0 when s starts with no well-formed one
ExponentOf(s) ==
    IF s # <<>> /\ Head(s) \in {"e", "E"}
    THEN LET r == Tail(s)
             sg == IF r # <<>> /\ Head(r) = "-" THEN -1 ELSE 1
             d == IF r # <<>> /\ Head(r) \in {"+", "-"} THEN Tail(r) ELSE r
         IN IF DigitRun(d) > 0 THEN sg * DigitsValue(Take(d, DigitRun(d))) ELSE 0
    ELSE 0

\* parseFloat: leading white space is skipped, then the longest prefix that
\* is a decimal literal (sign, Infinity or digits with an optional fraction
\* and exponent) is read and the rest ignored; NaN when there is no such prefix.
parseFloat(text) ==
    LET s == trimStart(text)
        sg == IF s # <<>> /\ Head(s) = "-" THEN -1 ELSE 1
        u == IF s # <<>> /\ Head(s) \in {"+", "-"} THEN Tail(s) ELSE s
        ni == DigitRun(u)
        afterInt == Drop(u, ni)
        hasDot == afterInt # <<>> /\ Head(afterInt) = "."
        nf == IF hasDot THEN DigitRun(Tail(afterInt)) ELSE 0
        afterFrac == IF hasDot THEN Drop(afterInt, 1 + nf) ELSE afterInt
        mant == DigitsValue(Take(u, ni) \o (IF hasDot THEN Take(Tail(afterInt), nf) ELSE <<>>))
    IN IF Len(u) >= 8 /\ Take(u, 8) = InfinityText THEN Infinity(sg)
       ELSE IF ni + nf = 0 THEN NaN
       ELSE Finite(sg, mant, ExponentOf(afterFrac) - nf)

isNaN(n) == n.kind = "nan"

\* v < n and v > n for an integer v and a parsed number n (IEEE comparison:
\* every comparison with NaN is false)
NumLt(v, n) ==
    CASE n.kind = "nan" -> FALSE
      [] n.kind = "inf" -> n.sign = 1
      [] OTHER -> IF n.e >= 0 THEN v < n.sign * n.m * Pow10(n.e)
                  ELSE v * Pow10(-n.e) < n.sign * n.m

NumGt(v, n) ==
    CASE n.kind = "nan" -> FALSE
      [] n.kind = "inf" -> n.sign = -1
      [] OTHER -> IF n.e >= 0 THEN v > n.sign * n.m * Pow10(n.e)
                  ELSE v * Pow10(-n.e) > n.sign * n.m

-----------------------------------------------------------------------------
(* Records and the merge of the four responses.                            *)

\* `x.k ?? 0`
OrZero(x, k) == IF k \in DOMAIN x THEN x[k] ELSE 0

\* The lookup table built by `data.forEach((s) => { map[s.id] = s; })`: a
\* later entry replaces an earlier one with the same id.
IdMap(data) ==
    [id \in {data[i].id : i \in DOMAIN data} |->
        data[CHOOSE i \in DOMAIN data :
                /\ data[i].id = id
                /\ \A j \in DOMAIN data : data[j].id = id => j <= i]]

SentimentKeys == {"bullishScore", "bearishScore", "mentionVolume"}
OnchainKeys == {"liquidity", "holders"}

\* The callback with whole entries spread over the asset: { ...asset, ...s, ...o }
MergeAsset_spread(asset, sentimentMap, onchainMap) ==
    LET s == IF asset.id \in DOMAIN sentimentMap THEN sentimentMap[asset.id] ELSE <<>>
        o == IF asset.id \in DOMAIN onchainMap THEN onchainMap[asset.id] ELSE <<>>
    IN [k \in DOMAIN asset \cup DOMAIN s \cup DOMAIN o |->
            IF k \in DOMAIN o THEN o[k]
            ELSE IF k \in DOMAIN s THEN s[k]
            ELSE asset[k]]

\* The callback with a field that both sources write: the on-chain entry's
\* holders also go to mentionVolume
MergeAsset_sharedField(asset, sentimentMap, onchainMap) ==
    LET s == IF asset.id \in DOMAIN sentimentMap THEN sentimentMap[asset.id] ELSE <<>>
        o == IF asset.id \in DOMAIN onchainMap THEN onchainMap[asset.id] ELSE <<>>
        fromS == IF asset.id \in DOMAIN sentimentMap THEN SentimentKeys ELSE {}
        fromO == IF asset.id \in DOMAIN onchainMap
                 THEN OnchainKeys \cup {"mentionVolume"} ELSE {}
        src(k) == IF k = "mentionVolume" THEN "holders" ELSE k
        defined == {k \in fromO : src(k) \in DOMAIN o}
                    \cup {k \in fromS \ fromO : k \in DOMAIN s}
    IN [k \in (DOMAIN asset \ (fromS \cup fromO)) \cup defined |->
            IF k \in fromO THEN o[src(k)]
            ELSE IF k \in fromS THEN s[k]
            ELSE asset[k]]

\* The callback of priceData.map: `extra` gets the three sentiment fields of
\* the entry found for the id and the two on-chain fields of the entry found,
\* and the result is { ...asset, ...extra }.  A field assigned from an entry
\* that lacks it is undefined in the result.
MergeAsset(asset, sentimentMap, onchainMap) ==
    LET hasS == asset.id \in DOMAIN sentimentMap
        hasO == asset.id \in DOMAIN onchainMap
        assigned == (IF hasS THEN SentimentKeys ELSE {})
                        \cup (IF hasO THEN OnchainKeys ELSE {})
        from(k) == IF k \in SentimentKeys THEN sentimentMap[asset.id]
                   ELSE onchainMap[asset.id]
        defined == {k \in assigned : k \in DOMAIN from(k)}
    IN [k \in (DOMAIN asset \ assigned) \cup defined |->
            IF k \in defined THEN from(k)[k] ELSE asset[k]]

\* The assignments to `extra` from one source: the keys it assigns and the
\* entry it reads them from; none when the map has no entry for the id
NoExtra == [assigned |-> {}, from |-> <<>>]
SentimentExtra(asset, sentimentMap) ==
    IF asset.id \in DOMAIN sentimentMap
    THEN [assigned |-> SentimentKeys, from |-> sentimentMap[asset.id]]
    ELSE NoExtra
OnchainExtra(asset, onchainMap) ==
    IF asset.id \in DOMAIN onchainMap
    THEN [assigned |-> OnchainKeys, from |-> onchainMap[asset.id]]
    ELSE NoExtra

\* { ...base, ...extra }: an assigned key takes the value read from the
\* entry, and is undefined when the entry lacks it
Spread(base, extra) ==
    LET defined == {k \in extra.assigned : k \in DOMAIN extra.from}
    IN [k \in (DOMAIN base \ extra.assigned) \cup defined |->
            IF k \in defined THEN extra.from[k] ELSE base[k]]

\* An outer join: the sentiment entries of ids without a price record are
\* appended as records of their own
Merge_outer(priceData, sentimentData, onchainData) ==
    LET foreign(entry) == \A i \in DOMAIN priceData : priceData[i].id # entry.id
    IN [i \in 1..Len(priceData) |->
            MergeAsset(priceData[i], IdMap(sentimentData), IdMap(onchainData))]
       \o SelectSeq(sentimentData, foreign)

\* const merged = priceData.map(...)
Merge(priceData, sentimentData, onchainData) ==
    [i \in 1..Len(priceData) |->
        MergeAsset(priceData[i], IdMap(sentimentData), IdMap(onchainData))]

\* The callback of merged.map for the news: n ? { ...asset, alerts: n.updates } : asset
WithAlerts(asset, newsMap) ==
    IF asset.id \in DOMAIN newsMap
    THEN LET n == newsMap[asset.id]
             keys == IF "updates" \in DOMAIN n
                     THEN DOMAIN asset \cup {"alerts"}
                     ELSE DOMAIN asset \ {"alerts"}
         IN [k \in keys |-> IF k = "alerts" THEN n.updates ELSE asset[k]]
    ELSE asset

\* withNews = merged.map(...)
WithNews(merged, newsData) ==
    [i \in 1..Len(merged) |-> WithAlerts(merged[i], IdMap(newsData))]

-----------------------------------------------------------------------------
(* calculateScore.  riskBias is in tenths and the result in 1/ScoreScale:  *)
(* ScoreScale * ((1 - b) * c24 + b * c7 + (bull - bear) / 10 + h / 10000)  *)

BiasScale == 10
ScoreScale == 100000

\* calculateScore with the two momentum weights exchanged
calculateScore_swapped(asset, bias) ==
    LET change24h == OrZero(asset, "price_change_percentage_24h")
        change7d == OrZero(asset, "price_change_percentage_7d_in_currency")
    IN (bias * change24h + (BiasScale - bias) * change7d) * (ScoreScale \div BiasScale)
         + (OrZero(asset, "bullishScore") - OrZero(asset, "bearishScore"))
                * (ScoreScale \div 10)
         + OrZero(asset, "holders") * (ScoreScale \div 10000)

\* calculateScore with the momentum weights fixed at one half
calculateScore_halves(asset, bias) ==
    LET change24h == OrZero(asset, "price_change_percentage_24h")
        change7d == OrZero(asset, "price_change_percentage_7d_in_currency")
    IN (5 * change24h + 5 * change7d) * (ScoreScale \div BiasScale)
         + (OrZero(asset, "bullishScore") - OrZero(asset, "bearishScore"))
                * (ScoreScale \div 10)
         + OrZero(asset, "holders") * (ScoreScale \div 10000)

calculateScore(asset, bias) ==
    LET change24h == OrZero(asset, "price_change_percentage_24h")
        change7d == OrZero(asset, "price_change_percentage_7d_in_currency")
        momentum == ((BiasScale - bias) * change24h + bias * change7d)
                        * (ScoreScale \div BiasScale)
        bullish == OrZero(asset, "bullishScore")
        bearish == OrZero(asset, "bearishScore")
        netSentiment == bullish - bearish
        sentimentComponent == netSentiment * (ScoreScale \div 10)
        holders == OrZero(asset, "holders")
        onchainComponent == holders * (ScoreScale \div 10000)
    IN momentum + sentimentComponent + onchainComponent

-----------------------------------------------------------------------------
(* The displayed list: filter, score, sort.                                *)

FilterKeys == {"minPrice", "maxPrice", "min24h", "max24h", "min7d", "max7d",
               "minVolume", "minMarketCap", "minBullish", "maxBearish",
               "minLiquidity", "minHolders"}

NoFilters == [k \in FilterKeys |-> <<>>]

\* The minimum test with <= for <: `bound !== "" && !isNaN(parseFloat(bound)) && value <= parseFloat(bound)`
BelowMin_strict(bound, value) ==
    bound # <<>> /\ ~isNaN(parseFloat(bound)) /\ ~NumGt(value, parseFloat(bound))

\* The minimum test turned round: `... && value > parseFloat(bound)`
BelowMin_flipped(bound, value) ==
    bound # <<>> /\ ~isNaN(parseFloat(bound)) /\ NumGt(value, parseFloat(bound))

\* The minimum test with an empty bound read as 0: `value < (parseFloat(bound) || 0)`
BelowMin_emptyZero(bound, value) ==
    IF bound = <<>> \/ isNaN(parseFloat(bound)) THEN value < 0
    ELSE NumLt(value, parseFloat(bound))

\* `bound !== "" && !isNaN(parseFloat(bound)) && value < parseFloat(bound)`
BelowMin(bound, value) ==
    bound # <<>> /\ ~isNaN(parseFloat(bound)) /\ NumLt(value, parseFloat(bound))

\* `bound !== "" && !isNaN(parseFloat(bound)) && value > parseFloat(bound)`
AboveMax(bound, value) ==
    bound # <<>> /\ ~isNaN(parseFloat(bound)) /\ NumGt(value, parseFloat(bound))

\* The callback of assets.filter, as a function of the two pieces of state
\* it closes over: the filters f and the search text
MatchesUnder(asset, f, text) ==
    LET term == trim(toLowerCase(text))
        matchesName == includes(toLowerCase(asset.name), term)
        matchesSymbol == includes(toLowerCase(asset.symbol), term)
        price == OrZero(asset, "current_price")
        change24h == OrZero(asset, "price_change_percentage_24h")
        change7d == OrZero(asset, "price_change_percentage_7d_in_currency")
        volume == OrZero(asset, "total_volume")
        mcap == OrZero(asset, "market_cap")
        bullish == OrZero(asset, "bullishScore")
        bearish == OrZero(asset, "bearishScore")
        liquidity == OrZero(asset, "liquidity")
        holders == OrZero(asset, "holders")
    IN /\ ~(term # <<>> /\ ~matchesName /\ ~matchesSymbol)
       /\ ~BelowMin(f.minPrice, price)
       /\ ~AboveMax(f.maxPrice, price)
       /\ ~BelowMin(f.min24h, change24h)
       /\ ~AboveMax(f.max24h, change24h)
       /\ ~BelowMin(f.min7d, change7d)
       /\ ~AboveMax(f.max7d, change7d)
       /\ ~BelowMin(f.minVolume, volume)
       /\ ~BelowMin(f.minMarketCap, mcap)
       /\ ~BelowMin(f.minBullish, bullish)
       /\ ~AboveMax(f.maxBearish, bearish)
       /\ ~BelowMin(f.minLiquidity, liquidity)
       /\ ~BelowMin(f.minHolders, holders)

\* The callback of assets.filter in the current state
Matches(asset) == MatchesUnder(asset, filters, search)

\* A filter that lets every pinned record through
RECURSIVE FilterSeq_keepsPinned(_)
FilterSeq_keepsPinned(s) ==
    IF s = <<>> THEN <<>>
    ELSE IF Matches(Head(s)) \/ Head(s).id \in watchlist
    THEN <<Head(s)>> \o FilterSeq_keepsPinned(Tail(s))
    ELSE FilterSeq_keepsPinned(Tail(s))

\* Array.prototype.filter with the predicate above
RECURSIVE FilterSeq(_)
FilterSeq(s) ==
    IF s = <<>> THEN <<>>
    ELSE IF Matches(Head(s)) THEN <<Head(s)>> \o FilterSeq(Tail(s))
    ELSE FilterSeq(Tail(s))

\* The callback of .map: { ...asset, score }
WithScore(asset) ==
    [k \in DOMAIN asset \cup {"score"} |->
        IF k = "score" THEN calculateScore(asset, riskBias) ELSE asset[k]]

SortFields == {"name", "price", "24h", "7d", "volume", "market_cap", "bullish",
               "bearish", "mentions", "liquidity", "holders", "alert", "score"}

\* getValue of the sort comparator
getValue(item) ==
    CASE sortField = "price" -> OrZero(item, "current_price")
      [] sortField = "24h" -> OrZero(item, "price_change_percentage_24h")
      [] sortField = "7d" -> OrZero(item, "price_change_percentage_7d_in_currency")
      [] sortField = "volume" -> OrZero(item, "total_volume")
      [] sortField = "market_cap" -> OrZero(item, "market_cap")
      [] sortField = "bullish" -> OrZero(item, "bullishScore")
      [] sortField = "bearish" -> OrZero(item, "bearishScore")
      [] sortField = "mentions" -> OrZero(item, "mentionVolume")
      [] sortField = "liquidity" -> OrZero(item, "liquidity")
      [] sortField = "holders" -> OrZero(item, "holders")
      [] sortField = "alert" ->
            IF "alerts" \in DOMAIN item /\ Len(item.alerts) > 0
            THEN OrZero(item.alerts[1], "rank")
            ELSE 0
      [] sortField = "name" -> toLowerCase(item.name)
      [] OTHER -> OrZero(item, "score")

\* The comparator without its two watchlist tests
Compare_unpinned(a, b) ==
    LET multiplier == IF sortDirection = "asc" THEN 1 ELSE -1
    IN IF sortField = "name"
       THEN multiplier * localeCompare(getValue(a), getValue(b))
       ELSE multiplier * (getValue(a) - getValue(b))

\* The comparator without the direction: the multiplier is always 1
Compare_ascending(a, b) ==
    LET aWatched == a.id \in watchlist
        bWatched == b.id \in watchlist
    IN IF aWatched /\ ~bWatched THEN -1
       ELSE IF ~aWatched /\ bWatched THEN 1
       ELSE IF sortField = "name" THEN localeCompare(getValue(a), getValue(b))
       ELSE getValue(a) - getValue(b)

\* The comparator handed to .sort: negative when a goes first
Compare(a, b) ==
    LET aWatched == a.id \in watchlist
        bWatched == b.id \in watchlist
        multiplier == IF sortDirection = "asc" THEN 1 ELSE -1
        aVal == getValue(a)
        bVal == getValue(b)
    IN IF aWatched /\ ~bWatched THEN -1
       ELSE IF ~aWatched /\ bWatched THEN 1
       ELSE IF sortField = "name" THEN multiplier * localeCompare(aVal, bVal)
       ELSE multiplier * (aVal - bVal)

\* Array.prototype.sort is stable: x goes behind every element that does not
\* compare greater than it.
RECURSIVE InsertSorted(_, _)
InsertSorted(x, s) ==
    IF s = <<>> THEN <<x>>
    ELSE IF Compare(Head(s), x) > 0 THEN <<x>> \o s
    ELSE <<Head(s)>> \o InsertSorted(x, Tail(s))

RECURSIVE SortList(_)
SortList(s) ==
    IF s = <<>> THEN <<>>
    ELSE InsertSorted(s[Len(s)], SortList(SubSeq(s, 1, Len(s) - 1)))

\* const filtered = assets.filter(...).map(...).sort(...)
filtered ==
    LET kept == FilterSeq(assets)
    IN SortList([i \in 1..Len(kept) |-> WithScore(kept[i])])

-----------------------------------------------------------------------------
(* The responses of the endpoints that the model draws from.               *)

\* The head of the list of page.tsx that the model requests by default
DEFAULT_IDS == <<"bitcoin", "ethereum">>

pBitcoin ==
    [id |-> "bitcoin", symbol |-> <<"b","t","c">>, name |-> <<"B","i","t">>,
     current_price |-> 5, price_change_percentage_24h |-> 10,
     price_change_percentage_7d_in_currency |-> -2,
     market_cap |-> 900, total_volume |-> 50]
\* a record with no optional field
pEthereum ==
    [id |-> "ethereum", symbol |-> <<"e","t","h">>, name |-> <<"E","t","h">>,
     current_price |-> 3]
pPepe ==
    [id |-> "pepe", symbol |-> <<"F","R","G">>, name |-> <<"P","e","p","e">>,
     current_price |-> 1, price_change_percentage_24h |-> 10,
     price_change_percentage_7d_in_currency |-> 4, total_volume |-> 7]
pDogecoin ==
    [id |-> "dogecoin", symbol |-> <<"d","o","g">>, name |-> <<"D","o","g","e">>,
     current_price |-> 150, price_change_percentage_24h |-> -3,
     price_change_percentage_7d_in_currency |-> 4, market_cap |-> 40]

\* Bodies of successful /api/prices responses
PriceLists ==
    {<<>>, <<pEthereum, pBitcoin>>, <<pBitcoin, pPepe, pDogecoin>>}

IdsOf(list) == {list[i].id : i \in DOMAIN list}
Range(list) == {list[i] : i \in DOMAIN list}

\* The bodies /api/prices may answer a request for `ids` with
PriceBodies(ids) == {l \in PriceLists : IdsOf(l) \subseteq Range(ids)}

\* Body of a successful /api/sentiment response: the entry of bitcoin also
\* carries fields that belong to the price source, one entry names an id no
\* price list holds, and ethereum and dogecoin have no entry.
SentimentBody ==
    <<[id |-> "bitcoin", bullishScore |-> 60, bearishScore |-> 20,
       mentionVolume |-> 300, current_price |-> 999, name |-> <<"X">>,
       symbol |-> <<"x">>, price_change_percentage_24h |-> 77],
      [id |-> "ghost", bullishScore |-> 1, bearishScore |-> 2, mentionVolume |-> 3],
      [id |-> "pepe", bullishScore |-> 30, bearishScore |-> 40, mentionVolume |-> 9]>>

\* Body of a successful /api/onchain response
OnchainBody ==
    <<[id |-> "ghost", liquidity |-> 1, holders |-> 1],
      [id |-> "bitcoin", liquidity |-> 600, holders |-> 20000,
       market_cap |-> 1, total_volume |-> 2,
       price_change_percentage_7d_in_currency |-> 88],
      [id |-> "dogecoin", liquidity |-> 900, holders |-> 1000]>>

\* Body of a successful /api/news response
NewsBody ==
    <<[id |-> "bitcoin", updates |-> <<[title |-> "t", rank |-> 2]>>],
      [id |-> "pepe", updates |-> <<[title |-> "t", rank |-> 1]>>],
      [id |-> "dogecoin", updates |-> <<>>],
      [id |-> "ghost", updates |-> <<[title |-> "t", rank |-> 1]>>]>>

\* `res.ok ? await res.json() : []`
BodyOrEmpty(status, body) == IF status = "ok" THEN body ELSE <<>>

\* Texts typed into the search box
SearchTexts == {<<>>, <<" ","P","e">>, <<"T","C">>}

\* A coins list longer than the cap of the search run: twelve coins, the
\* last of them one that the price source knows
ManyCoins ==
    <<[id |-> "pepe"], [id |-> "bitcoin"], [id |-> "pepe-3"], [id |-> "pepe-4"],
      [id |-> "pepe-5"], [id |-> "pepe-6"], [id |-> "pepe-7"], [id |-> "pepe-8"],
      [id |-> "pepe-9"], [id |-> "pepe-10"], [id |-> "pepe-11"], [id |-> "dogecoin"]>>

\* Bodies of successful /api/search responses: the coins lists
SearchBodies ==
    {<<>>, <<[id |-> "pepe"], [id |-> "bitcoin"], [id |-> "dogecoin"]>>, ManyCoins}

\* Texts typed into a filter input
BoundTexts ==
    {<<>>, <<"5">>, <<"-","3">>, <<"x">>, <<"5","x">>, InfinityText}

-----------------------------------------------------------------------------
(* Refresh runs.  A run is one call of loadDefault or of the timer         *)
(* callback of the search effect; its frame holds the locals that live     *)
(* across its awaits.  A fetch settles with "err" (the promise rejects: a  *)
(* transport error), "bad" (a response whose ok is false) or a body.       *)

\* What a fetch of a list settles with
Rejected == [status |-> "err", body |-> <<>>]
NotOk == [status |-> "bad", body |-> <<>>]
Ok(list) == [status |-> "ok", body |-> list]
\* A response of /api/search whose body has no coins list
NoCoins == [status |-> "nocoins", body |-> <<>>]

Frame(kind, pc, term, ids, priceData, sRes, oRes) ==
    [kind |-> kind, pc |-> pc, term |-> term, ids |-> ids,
     priceData |-> priceData, sentimentRes |-> sRes, onchainRes |-> oRes,
     idStr |-> <<>>]

\* A run that has returned: its locals are gone
Ended(kind) == Frame(kind, "done", <<>>, <<>>, <<>>, "none", "none")

InFlight == {r \in DOMAIN runs : runs[r].pc # "done"}

\* loadDefault up to its first await: setLoading(true) and the price request
DefaultStarted == Frame("default", "price", <<>>, DEFAULT_IDS, <<>>, "none", "none")

\* The timer callback up to its first await: setLoading(true) and the search request
SearchStarted(term) == Frame("search", "search", term, <<>>, <<>>, "none", "none")

\* The run r returns: `finally { setLoading(false) }`
Finish(r) ==
    /\ runs' = [runs EXCEPT ![r] = Ended(runs[r].kind)]
    /\ loading' = FALSE

\* setAssets(list) by run r, and the run returns
Publish(r, list) ==
    /\ assets' = list
    /\ lastWriter' = r
    /\ Finish(r)

\* A run that returns through its catch without the finally block
Abandon_noFinally(r) ==
    /\ UNCHANGED <<assets, lastWriter, loading>>
    /\ runs' = [runs EXCEPT ![r] = Ended(runs[r].kind)]

\* The run r returns without a call of setAssets
Abandon(r) ==
    /\ UNCHANGED <<assets, lastWriter>>
    /\ Finish(r)

\* Number of refresh runs started so far; the latest run has this number
started == Len(runs)

\* The two effects of the first render: each calls loadDefault()
Mount ==
    /\ ~mounted
    /\ runs = <<>>
    /\ mounted' = TRUE
    /\ runs' = <<DefaultStarted, DefaultStarted>>
    /\ loading' = TRUE
    /\ UNCHANGED <<assets, search, searchTimeoutRef, timers, timeoutsSet, lastWriter>>
    /\ UNCHANGED <<viewVars, serverVars>>

\* clearTimeout that cancels nothing
ClearTimeout_noop(pending, h) == pending

\* The pending timers after clearTimeout(h)
ClearTimeout(pending, h) == [x \in DOMAIN pending \ {h} |-> pending[x]]

\* setSearch(text) from the search box, and the effect on [search] that the
\* new render runs: first the cleanup that the previous effect returned (it
\* returned one only when its term was not empty), then the effect body.
ChangeSearch(text) ==
    LET term == toLowerCase(trim(text))
        oldTerm == toLowerCase(trim(search))
        \* cleanup: if (ref.current) { clearTimeout(ref.current); ref.current = undefined }
        ref1 == IF oldTerm # <<>> THEN 0 ELSE searchTimeoutRef
        timers1 == IF oldTerm # <<>> /\ searchTimeoutRef # 0
                   THEN ClearTimeout(timers, searchTimeoutRef)
                   ELSE timers
        \* body, both branches: if (ref.current) clearTimeout(ref.current)
        timers2 == IF ref1 # 0 THEN ClearTimeout(timers1, ref1) ELSE timers1
        handle == timeoutsSet + 1
    IN /\ mounted
       /\ text # search
       /\ search' = text
       /\ IF term = <<>>
          THEN /\ started < MaxRuns
               /\ timers' = timers2
               /\ searchTimeoutRef' = 0
               /\ runs' = Append(runs, DefaultStarted)
               /\ loading' = TRUE
               /\ UNCHANGED timeoutsSet
          ELSE /\ timeoutsSet < MaxTimers
               /\ timers' = [x \in DOMAIN timers2 \cup {handle} |->
                                IF x = handle THEN term ELSE timers2[x]]
               /\ searchTimeoutRef' = handle
               /\ timeoutsSet' = handle
               /\ UNCHANGED <<runs, loading>>
       /\ UNCHANGED <<assets, lastWriter, mounted>>
       /\ UNCHANGED <<viewVars, serverVars>>

\* The component unmounts: the cleanup that the last search effect returned
\* runs (it returned one only when its term was not empty).  The runs in
\* flight go on and settle; what they set is no longer rendered.
Unmount ==
    LET oldTerm == toLowerCase(trim(search))
        clears == oldTerm # <<>> /\ searchTimeoutRef # 0
    IN /\ mounted
       /\ mounted' = FALSE
       /\ timers' = IF clears THEN ClearTimeout(timers, searchTimeoutRef) ELSE timers
       /\ searchTimeoutRef' = IF clears THEN 0 ELSE searchTimeoutRef
       /\ UNCHANGED <<assets, loading, search, runs, timeoutsSet, lastWriter>>
       /\ UNCHANGED <<viewVars, serverVars>>

\* The timer h fires: the callback runs up to its first await
TimerFire(h) ==
    /\ h \in DOMAIN timers
    /\ started < MaxRuns
    /\ timers' = ClearTimeout(timers, h)
    /\ runs' = Append(runs, SearchStarted(timers[h]))
    /\ loading' = TRUE
    /\ UNCHANGED <<assets, search, searchTimeoutRef, timeoutsSet, lastWriter, mounted>>
    /\ UNCHANGED <<viewVars, serverVars>>

\* `data.coins.map((c) => c.id).slice(0, 10)`
SearchCap == 10

\* The ids of the whole coins list, with no slice
FirstIds_uncapped(coins) == [i \in DOMAIN coins |-> coins[i].id]

FirstIds(coins) ==
    [i \in 1..(IF Len(coins) < SearchCap THEN Len(coins) ELSE SearchCap) |-> coins[i].id]

\* A search run that empties the stored list when its search request fails
SearchSettle_clears(r, out) ==
    /\ r \in DOMAIN runs
    /\ runs[r].pc = "search"
    /\ IF out.status \in {"err", "nocoins"}
       THEN Publish(r, <<>>)
       ELSE IF Len(FirstIds(out.body)) > 0
       THEN /\ runs' = [runs EXCEPT ![r].pc = "price", ![r].ids = FirstIds(out.body)]
            /\ UNCHANGED <<assets, lastWriter, loading>>
       ELSE Publish(r, <<>>)
    /\ UNCHANGED <<search, searchTimeoutRef, timers, timeoutsSet, mounted>>
    /\ UNCHANGED <<viewVars, serverVars>>

\* The search request of run r settles: "err" is a rejected fetch, "nocoins"
\* a body without a coins list (the error body of the route).
SearchSettle(r, out) ==
    /\ r \in DOMAIN runs
    /\ runs[r].pc = "search"
    /\ IF out.status \in {"err", "nocoins"}
       THEN Abandon(r)
       ELSE IF Len(FirstIds(out.body)) > 0
       THEN /\ runs' = [runs EXCEPT ![r].pc = "price", ![r].ids = FirstIds(out.body)]
            /\ UNCHANGED <<assets, lastWriter, loading>>
       ELSE Publish(r, <<>>)
    /\ UNCHANGED <<search, searchTimeoutRef, timers, timeoutsSet, mounted>>
    /\ UNCHANGED <<viewVars, serverVars>>

\* The run r going on with the ids it asked the prices for, not the ids of
\* the records it got
AwaitAux_askedIds(r, priceData) ==
    /\ runs' = [runs EXCEPT ![r].pc = "aux", ![r].priceData = priceData,
                            ![r].idStr = runs[r].ids,
                            ![r].sentimentRes = "pending",
                            ![r].onchainRes = "pending"]
    /\ UNCHANGED <<assets, lastWriter, loading>>

\* The run r goes on to `await Promise.all([fetch sentiment, fetch onchain])`,
\* both requests for idStr, the ids of the records of priceData; the news
\* request that follows is for the same ids
AwaitAux(r, priceData) ==
    /\ runs' = [runs EXCEPT ![r].pc = "aux", ![r].priceData = priceData,
                            ![r].idStr = [i \in DOMAIN priceData |-> priceData[i].id],
                            ![r].sentimentRes = "pending",
                            ![r].onchainRes = "pending"]
    /\ UNCHANGED <<assets, lastWriter, loading>>

\* The price request of run r settles.  In loadDefault a rejected fetch is
\* caught by the outer catch; the body of a response that is not ok is the
\* object { error }, which has no length and no map, so `priceData.map`
\* throws into the same catch.  The search run tests priceRes.ok.
PriceSettle(r, out) ==
    /\ r \in DOMAIN runs
    /\ runs[r].pc = "price"
    /\ IF runs[r].kind = "default"
       THEN IF out.status \in {"err", "bad"} THEN Abandon(r)
            ELSE IF Len(out.body) = 0 THEN Publish(r, <<>>)
            ELSE AwaitAux(r, out.body)
       ELSE IF out.status = "err" THEN Abandon(r)
            ELSE IF out.status = "bad" THEN Publish(r, <<>>)
            ELSE AwaitAux(r, out.body)
    /\ UNCHANGED <<search, searchTimeoutRef, timers, timeoutsSet, mounted>>
    /\ UNCHANGED <<viewVars, serverVars>>

\* One of the two requests under Promise.all settles.  A rejection rejects
\* Promise.all at once: loadDefault lands in its outer catch, the search run
\* in its inner catch, which calls setAssets(priceData).  When both have a
\* response the run merges and goes on to `await fetch(/api/news)`.
AuxSettle(r, which, out) ==
    /\ r \in DOMAIN runs
    /\ runs[r].pc = "aux"
    /\ runs[r][which] = "pending"
    /\ LET other == IF which = "sentimentRes" THEN "onchainRes" ELSE "sentimentRes"
       IN IF out = "err"
          THEN IF runs[r].kind = "default" THEN Abandon(r)
               ELSE Publish(r, runs[r].priceData)
          ELSE /\ runs' = [runs EXCEPT ![r][which] = out,
                                       ![r].pc = IF runs[r][other] = "pending"
                                                 THEN "aux" ELSE "news"]
               /\ UNCHANGED <<assets, lastWriter, loading>>
    /\ UNCHANGED <<search, searchTimeoutRef, timers, timeoutsSet, mounted>>
    /\ UNCHANGED <<viewVars, serverVars>>

\* `merged` of run r, from the responses its frame holds
MergedOf(f) ==
    Merge(f.priceData, BodyOrEmpty(f.sentimentRes, SentimentBody),
          BodyOrEmpty(f.onchainRes, OnchainBody))

\* The news request of run r settles: setAssets(withNews), where withNews is
\* merged unless the response is ok.
NewsSettle(r, out) ==
    /\ r \in DOMAIN runs
    /\ runs[r].pc = "news"
    /\ Publish(r, IF out = "ok" THEN WithNews(MergedOf(runs[r]), NewsBody)
                  ELSE MergedOf(runs[r]))
    /\ UNCHANGED <<search, searchTimeoutRef, timers, timeoutsSet, mounted>>
    /\ UNCHANGED <<viewVars, serverVars>>

\* What the requests of a run can settle with
SearchOutcomes == {Rejected, NoCoins} \cup {Ok(b) : b \in SearchBodies}
PriceOutcomes(ids) == {Rejected, NotOk} \cup {Ok(b) : b \in PriceBodies(ids)}
Outcomes == {"err", "bad", "ok"}

-----------------------------------------------------------------------------
(* The API routes /api/onchain and /api/sentiment.  A 32-bit word of       *)
(* Math.imul and of the bitwise operators is a pair <<high, low>> of its   *)
(* two 16-bit halves.                                                      *)

TwoTo16 == 65536

\* a ^ b on 16 bits
RECURSIVE Xor16(_, _)
Xor16(a, b) ==
    IF a = 0 THEN b
    ELSE IF b = 0 THEN a
    ELSE 2 * Xor16(a \div 2, b \div 2) + ((a + b) % 2)

\* a | b on 16 bits
RECURSIVE Or16(_, _)
Or16(a, b) ==
    IF a = 0 THEN b
    ELSE IF b = 0 THEN a
    ELSE 2 * Or16(a \div 2, b \div 2) + (IF a % 2 = 1 \/ b % 2 = 1 THEN 1 ELSE 0)

\* a ^ b, a | b and the low 32 bits of a + b
Xor(a, b) == <<Xor16(a[1], b[1]), Xor16(a[2], b[2])>>
Or(a, b) == <<Or16(a[1], b[1]), Or16(a[2], b[2])>>
Add(a, b) ==
    <<(a[1] + b[1] + ((a[2] + b[2]) \div TwoTo16)) % TwoTo16, (a[2] + b[2]) % TwoTo16>>

\* The product of two 16-bit numbers as a word, by the bytes of x
Product16(x, y) ==
    LET p0 == (x % 256) * y
        p1 == (x \div 256) * y
        low == p0 + ((p1 % 256) * 256)
    IN <<((low \div TwoTo16) + (p1 \div 256)) % TwoTo16, low % TwoTo16>>

\* Math.imul(a, b): the low 32 bits of the product
imul(a, b) ==
    LET low == Product16(a[2], b[2])
    IN <<(low[1] + Product16(a[2], b[1])[2] + Product16(a[1], b[2])[2]) % TwoTo16,
         low[2]>>

\* a >>> k, for 0 < k < 16
ShiftRightZero(a, k) ==
    <<a[1] \div (2^k), ((a[1] % (2^k)) * (2^(16 - k))) + (a[2] \div (2^k))>>

\* a >> k as a number, for 0 < k <= 16: the shift of the signed value of a
ShiftRight(a, k) ==
    (a[1] * (2^(16 - k))) + (a[2] \div (2^k)) - (IF a[1] >= 32768 THEN 2^(32 - k) ELSE 0)

\* u % n for the unsigned value u of a word
Mod(a, n) == ((a[1] % n) * (TwoTo16 % n) + a[2]) % n

\* x % n for a number x: the remainder has the sign of x
Rem(x, n) == IF x < 0 THEN 0 - ((0 - x) % n) ELSE x % n

\* String.prototype.charCodeAt for the characters of ids and of their list
charCodeAt(c) ==
    IF \E i \in 1..26 : LowerCase[i] = c
    THEN 96 + (CHOOSE i \in 1..26 : LowerCase[i] = c)
    ELSE IF IsDigit(c) THEN 48 + DigitVal(c)
    ELSE IF c = "," THEN 44
    ELSE 45

\* String.prototype.split with a separator of one character
RECURSIVE split(_, _)
split(s, sep) ==
    IF \E i \in DOMAIN s : s[i] = sep
    THEN LET i == CHOOSE i \in DOMAIN s : s[i] = sep /\ \A j \in 1..(i - 1) : s[j] # sep
         IN <<SubSeq(s, 1, i - 1)>> \o split(SubSeq(s, i + 1, Len(s)), sep)
    ELSE <<s>>

\* The 400 response of both routes
MissingIds == [status |-> 400, body |-> <<>>]

\* /api/onchain: hash(str)
GoldenRatio == <<40503, 31153>>
RECURSIVE hash(_)
hash(str) ==
    IF str = <<>> THEN <<0, 0>>
    ELSE imul(Xor(hash(SubSeq(str, 1, Len(str) - 1)), <<0, charCodeAt(str[Len(str)])>>),
              GoldenRatio)

\* /api/onchain: the callback of ids.map
OnchainEntry(id) ==
    LET h == hash(id)
    IN [id |-> id,
        liquidity |-> (Mod(h, 1000) + 500) * 1000,
        holders |-> Rem(ShiftRight(h, 8), 50000) + 1000]

\* /api/onchain: GET
onchainGET(hasIds, idsParam) ==
    IF ~hasIds \/ idsParam = <<>> THEN MissingIds
    ELSE LET ids == split(idsParam, ",")
         IN [status |-> 200, body |-> [i \in DOMAIN ids |-> OnchainEntry(ids[i])]]

\* A generator that starts from the same state for every id
seedRandom_constant(str) == <<0, 0>>

\* /api/sentiment: seedRandom(str), the state h its closure starts from
Murmur == <<23505, 59797>>
RECURSIVE seedRandom(_)
seedRandom(str) ==
    IF str = <<>> THEN <<0, 0>>
    ELSE imul(Xor(seedRandom(SubSeq(str, 1, Len(str) - 1)),
                  <<0, charCodeAt(str[Len(str)])>>),
              Murmur)

\* /api/sentiment: one call of the closure on state h0: the new state and
\* the word whose unsigned value over 2^32 is returned
Increment == <<27947, 31221>>
rand(h0) ==
    LET h == Add(h0, Increment)
        t == imul(Xor(h, ShiftRightZero(h, 15)), Or(h, <<0, 1>>))
        t2 == Xor(t, Add(t, imul(Xor(t, ShiftRightZero(t, 7)), Or(t, <<0, 61>>))))
    IN [h |-> h, value |-> Xor(t2, ShiftRightZero(t2, 14))]

\* Math.round(u / 4294967296 * k) for the unsigned value u of a word
RoundScaled(u, k) ==
    ((u[1] * k) + 32768 + ((u[2] * k) \div TwoTo16)) \div TwoTo16

\* /api/sentiment: the catch block
Fallback(id) ==
    LET r1 == rand(seedRandom(id))
        r2 == rand(r1.h)
        r3 == rand(r2.h)
    IN [id |-> id,
        bullishScore |-> RoundScaled(r1.value, 100),
        bearishScore |-> RoundScaled(r2.value, 100),
        mentionVolume |-> RoundScaled(r3.value, 10000)]

\* What the request to CoinGecko for one id comes to: Failed is a rejected
\* fetch, a response that is not ok or a body that is not JSON; otherwise
\* the body, its percentages in tenths
Failed == [ok |-> FALSE, data |-> [none |-> 0]]
Votes ==
    [ok |-> TRUE,
     data |-> [sentiment_votes_up_percentage |-> 805,
               sentiment_votes_down_percentage |-> 194,
               watchlist_portfolio_users |-> 12340]]
NoVotes == [ok |-> TRUE, data |-> [none |-> 0]]
UpstreamOutcomes == {Failed, Votes, NoVotes}

\* Math.round of a number of tenths that is not negative
RoundTenths(x) == (x + 5) \div 10

\* `typeof data?.key === "number" ? Math.round(data.key) : 0`
NumberOrZero(data, key) == IF key \in DOMAIN data THEN RoundTenths(data[key]) ELSE 0

\* /api/sentiment: the callback of ids.map
SentimentEntry(id, outcome) ==
    IF outcome.ok
    THEN [id |-> id,
          bullishScore |-> NumberOrZero(outcome.data, "sentiment_votes_up_percentage"),
          bearishScore |-> NumberOrZero(outcome.data, "sentiment_votes_down_percentage"),
          mentionVolume |-> NumberOrZero(outcome.data, "watchlist_portfolio_users")]
    ELSE Fallback(id)

\* /api/sentiment: GET, with the outcomes of the requests to CoinGecko
sentimentGET(hasIds, idsParam, outcomes) ==
    IF ~hasIds \/ idsParam = <<>> THEN MissingIds
    ELSE LET ids == split(idsParam, ",")
         IN [status |-> 200,
             body |-> [i \in DOMAIN ids |-> SentimentEntry(ids[i], outcomes[i])]]

\* The ids of the requests, and the values of the ids parameter: absent,
\* empty, one id, two ids, and a lone comma
RouteIds ==
    {<<"b","i","t","c","o","i","n">>, <<"e","t","h","e","r","e","u","m">>,
     <<"p","e","p","e">>, <<"d","o","g","e","c","o","i","n">>}
IdsParams == {<<>>, <<",">>} \cup RouteIds \cup {a \o <<",">> \o b : a, b \in RouteIds}
Requests ==
    {[route |-> r, hasIds |-> TRUE, ids |-> p] : r \in {"onchain", "sentiment"}, p \in IdsParams}
        \cup {[route |-> r, hasIds |-> FALSE, ids |-> <<>>] : r \in {"onchain", "sentiment"}}

NoRequest == [route |-> "none", hasIds |-> FALSE, ids |-> <<>>]
NoResponse == [status |-> 0, body |-> <<>>]

\* No route is handling a request
Idle == request = NoRequest /\ upstream = <<>> /\ response = NoResponse

\* The route /api/onchain answers the request
OnchainGET ==
    /\ request.route = "onchain"
    /\ response = NoResponse
    /\ response' = onchainGET(request.hasIds, request.ids)
    /\ UNCHANGED <<request, upstream>>
    /\ UNCHANGED pageVars

\* The route /api/sentiment answers the request, CoinGecko having answered
\* each of its ids in some way
SentimentGET ==
    /\ request.route = "sentiment"
    /\ response = NoResponse
    /\ LET n == IF ~request.hasIds \/ request.ids = <<>> THEN 0
                ELSE Len(split(request.ids, ","))
       IN \E outcomes \in [1..n -> UpstreamOutcomes] :
            /\ upstream' = outcomes
            /\ response' = sentimentGET(request.hasIds, request.ids, outcomes)
    /\ UNCHANGED request
    /\ UNCHANGED pageVars

Init ==
    /\ assets = <<>>
    /\ loading = TRUE
    /\ riskBias = 5
    /\ search = <<>>
    /\ watchlist = {}
    /\ sortField = "score"
    /\ sortDirection = "desc"
    /\ filters = NoFilters
    /\ searchTimeoutRef = 0
    /\ timers = <<>>
    /\ runs = <<>>
    /\ timeoutsSet = 0
    /\ lastWriter = 0
    /\ mounted = FALSE
    /\ Idle

Next ==
    \/ Mount
    \/ Unmount
    \/ \E text \in SearchTexts : ChangeSearch(text)
    \/ \E h \in DOMAIN timers : TimerFire(h)
    \/ \E r \in DOMAIN runs, out \in SearchOutcomes : SearchSettle(r, out)
    \/ \E r \in DOMAIN runs :
            \E out \in PriceOutcomes(runs[r].ids) : PriceSettle(r, out)
    \/ \E r \in DOMAIN runs, which \in {"sentimentRes", "onchainRes"}, out \in Outcomes :
            AuxSettle(r, which, out)
    \/ \E r \in DOMAIN runs, out \in Outcomes : NewsSettle(r, out)

Spec == Init /\ [][Next]_vars

\* The request that run r waits for settles
Settle(r) ==
    \/ \E out \in SearchOutcomes : SearchSettle(r, out)
    \/ /\ r \in DOMAIN runs
       /\ \E out \in PriceOutcomes(runs[r].ids) : PriceSettle(r, out)
    \/ \E which \in {"sentimentRes", "onchainRes"}, out \in Outcomes :
            AuxSettle(r, which, out)
    \/ \E out \in Outcomes : NewsSettle(r, out)

\* The program when every fetch settles: a run that waits for a response
\* gets one
Fairness == \A r \in 1..MaxRuns : WF_vars(Settle(r))

\* The ids of the rows on display (sorting keeps the rows)
DisplayedIds == IdsOf(FilterSeq(assets))

-----------------------------------------------------------------------------
(* The handlers of the controls.                                           *)

\* An updater that only ever adds the id
Updater_addOnly(prev, id) == prev \cup {id}

\* The updater toggleWatch hands to setWatchlist: a copy of the previous set
\* with the id deleted when it has it and added when it does not
Updater(prev, id) ==
    LET next == prev
    IN IF id \in next THEN next \ {id} ELSE next \cup {id}

\* toggleWatch(id), from the star of a displayed row
toggleWatch(id) ==
    /\ watchlist' = Updater(watchlist, id)
    /\ UNCHANGED <<assets, loading, search, riskBias, sortField, sortDirection, filters>>
    /\ UNCHANGED <<runVars, serverVars>>

\* updateFilter that also empties the watchlist
updateFilter_clearsWatch(key, value) ==
    /\ filters' = [filters EXCEPT ![key] = value]
    /\ watchlist' = {}
    /\ UNCHANGED <<assets, loading, search, riskBias, sortField, sortDirection>>
    /\ UNCHANGED <<runVars, serverVars>>

\* updateFilter(key, value): setFilters((prev) => ({ ...prev, [key]: value }))
updateFilter(key, value) ==
    /\ filters' = [filters EXCEPT ![key] = value]
    /\ UNCHANGED <<assets, loading, search, riskBias, watchlist, sortField, sortDirection>>
    /\ UNCHANGED <<runVars, serverVars>>

\* handleSort that keeps the direction when another field is selected
handleSort_keepsDirection(field) ==
    /\ IF sortField = field
       THEN /\ sortDirection' = IF sortDirection = "asc" THEN "desc" ELSE "asc"
            /\ UNCHANGED sortField
       ELSE /\ sortField' = field
            /\ UNCHANGED sortDirection
    /\ UNCHANGED <<assets, loading, search, riskBias, watchlist, filters>>
    /\ UNCHANGED <<runVars, serverVars>>

\* handleSort that also stores the displayed list: setAssets(filtered)
handleSort_storesDisplayed(field) ==
    /\ IF sortField = field
       THEN /\ sortDirection' = IF sortDirection = "asc" THEN "desc" ELSE "asc"
            /\ UNCHANGED sortField
       ELSE /\ sortField' = field
            /\ sortDirection' = "desc"
    /\ assets' = filtered
    /\ UNCHANGED <<loading, search, riskBias, watchlist, filters>>
    /\ UNCHANGED <<runVars, serverVars>>

\* handleSort(field), from a column header
handleSort(field) ==
    /\ IF sortField = field
       THEN /\ sortDirection' = IF sortDirection = "asc" THEN "desc" ELSE "asc"
            /\ UNCHANGED sortField
       ELSE /\ sortField' = field
            /\ sortDirection' = "desc"
    /\ UNCHANGED <<assets, loading, search, riskBias, watchlist, filters>>
    /\ UNCHANGED <<runVars, serverVars>>

\* setRiskBias(parseFloat(e.target.value)) from the slider: min 0, max 1, step 0.1
setRiskBias(b) ==
    /\ riskBias' = b
    /\ UNCHANGED <<assets, loading, search, watchlist, sortField, sortDirection, filters>>
    /\ UNCHANGED <<runVars, serverVars>>

-----------------------------------------------------------------------------
(* Specifications of the parts.  Each starts from states that the program  *)
(* reaches (Spec above) and lets one part act.                             *)

\* What a run publishes from a price body and the three auxiliary responses
Published(priceData, sRes, oRes, nRes) ==
    LET merged == Merge(priceData, BodyOrEmpty(sRes, SentimentBody),
                        BodyOrEmpty(oRes, OnchainBody))
    IN IF nRes = "ok" THEN WithNews(merged, NewsBody) ELSE merged

\* The lists that runs store
StoredLists ==
    {Published(p, s, o, n) : p \in PriceLists, s \in {"ok", "bad"},
                             o \in {"ok", "bad"}, n \in {"ok", "bad"}}

\* A state with no run in flight, `list` stored and `text` in the search
\* box: the two runs of the mount have returned and, when the text is not
\* blank, so has the search run that its timer started.
Settled(list, text) ==
    LET blank == toLowerCase(trim(text)) = <<>>
    IN /\ assets = list
       /\ loading = FALSE
       /\ riskBias = 5
       /\ watchlist = {}
       /\ sortField = "score"
       /\ sortDirection = "desc"
       /\ filters = NoFilters
       /\ runs = IF blank THEN <<Ended("default"), Ended("default")>>
                 ELSE <<Ended("default"), Ended("default"), Ended("search")>>
       /\ lastWriter = IF blank THEN 2 ELSE 3
       /\ mounted = TRUE
       /\ search = text
       /\ searchTimeoutRef = IF blank THEN 0 ELSE 1
       /\ timers = <<>>
       /\ timeoutsSet = IF blank THEN 0 ELSE 1
       /\ Idle

\* One more run has just started over a settled state: a default load (the
\* search box was cleared) or a search run (the timer of a text has fired).
InitRun ==
    /\ assets \in StoredLists
    /\ loading = TRUE
    /\ riskBias = 5
    /\ watchlist = {}
    /\ sortField = "score"
    /\ sortDirection = "desc"
    /\ filters = NoFilters
    /\ lastWriter = 2
    /\ mounted = TRUE
    /\ timers = <<>>
    /\ timeoutsSet = 1
    /\ search \in SearchTexts
    /\ searchTimeoutRef = IF toLowerCase(trim(search)) = <<>> THEN 0 ELSE 1
    /\ runs = <<Ended("default"), Ended("default"),
                IF toLowerCase(trim(search)) = <<>> THEN DefaultStarted
                ELSE SearchStarted(toLowerCase(trim(search)))>>
    /\ Idle

NextRun ==
    \/ \E r \in DOMAIN runs, out \in SearchOutcomes : SearchSettle(r, out)
    \/ \E r \in DOMAIN runs :
            \E out \in PriceOutcomes(runs[r].ids) : PriceSettle(r, out)
    \/ \E r \in DOMAIN runs, which \in {"sentimentRes", "onchainRes"}, out \in Outcomes :
            AuxSettle(r, which, out)
    \/ \E r \in DOMAIN runs, out \in Outcomes : NewsSettle(r, out)

SpecRun == InitRun /\ [][NextRun]_vars

\* The ordering engine: sort header, watchlist and risk bias over a stored list
InitSort == \E list \in StoredLists : Settled(list, <<>>)

NextSort ==
    \/ \E field \in SortFields : handleSort(field)
    \/ \E id \in DisplayedIds : toggleWatch(id)
    \/ \E b \in 0..BiasScale : setRiskBias(b)

SpecSort == InitSort /\ [][NextSort]_vars

\* The filter engine: the twelve bound inputs over a stored list and a search text
FilterLists ==
    {Published(<<pEthereum, pBitcoin>>, "bad", "bad", "bad"),
     Published(<<pBitcoin, pPepe, pDogecoin>>, "ok", "ok", "ok")}

InitFilter == \E list \in FilterLists, text \in SearchTexts : Settled(list, text)

ActiveBounds(f) == {k \in FilterKeys : f[k] # <<>>}

NextFilter ==
    \E key \in FilterKeys, value \in BoundTexts :
        /\ Cardinality(ActiveBounds([filters EXCEPT ![key] = value])) <= MaxActive
        /\ updateFilter(key, value)

SpecFilter == InitFilter /\ [][NextFilter]_vars

\* The filter engine with at most MaxSet bounds set at a time
MaxSet == 1

NextBounds ==
    \E key \in FilterKeys, value \in BoundTexts :
        /\ Cardinality(ActiveBounds([filters EXCEPT ![key] = value])) <= MaxSet
        /\ updateFilter(key, value)

SpecBounds == InitFilter /\ [][NextBounds]_vars

\* The search effect and the runs up to their price response: mount,
\* changes of the text, timers firing, the search and price requests of the
\* runs, and unmount.  The sentiment and on-chain requests stay pending; no
\* later step of a run touches the text or the timers.
NextTimer ==
    \/ Mount
    \/ Unmount
    \/ \E text \in SearchTexts : ChangeSearch(text)
    \/ \E h \in DOMAIN timers : TimerFire(h)
    \/ \E r \in DOMAIN runs, out \in SearchOutcomes : SearchSettle(r, out)
    \/ \E r \in DOMAIN runs :
            \E out \in PriceOutcomes(runs[r].ids) : PriceSettle(r, out)

SpecTimer == Init /\ [][NextTimer]_vars

\* The four controls of the view together over a stored list: at most
\* MaxViewActive bounds set, from ViewBoundTexts, and the slider at its ends
\* or its middle
MaxViewActive == 1
ViewBoundTexts == {<<>>, <<"5">>}
ViewBiases == {0, 5, BiasScale}

InitView == \E list \in FilterLists : Settled(list, <<>>)

NextView ==
    \/ \E field \in SortFields : handleSort(field)
    \/ \E id \in DisplayedIds : toggleWatch(id)
    \/ \E b \in ViewBiases : setRiskBias(b)
    \/ \E key \in FilterKeys, value \in ViewBoundTexts :
            /\ Cardinality(ActiveBounds([filters EXCEPT ![key] = value])) <= MaxViewActive
            /\ updateFilter(key, value)

SpecView == InitView /\ [][NextView]_vars

\* A refresh run over a stored list while the user works the controls: the
\* stars of the displayed rows, the price header, the slider and the
\* minimum price
InitWatch == InitRun /\ assets \in FilterLists

NextWatch ==
    \/ NextRun
    \/ \E id \in DisplayedIds : toggleWatch(id)
    \/ handleSort("price")
    \/ \E b \in ViewBiases : setRiskBias(b)
    \/ \E value \in ViewBoundTexts : updateFilter("minPrice", value)

SpecWatch == InitWatch /\ [][NextWatch]_vars

\* The runs to their ends when every fetch settles: the two default loads
\* of the mount, overlapping in every way, and one more run, a default load
\* or a search run, over a stored list
InitLive == Init \/ InitRun

NextLive ==
    \/ Mount
    \/ \E r \in DOMAIN runs : Settle(r)

SpecLive == InitLive /\ [][NextLive]_vars /\ Fairness

\* The two routes, each answering one request
InitServer ==
    /\ assets = <<>>
    /\ loading = TRUE
    /\ riskBias = 5
    /\ search = <<>>
    /\ watchlist = {}
    /\ sortField = "score"
    /\ sortDirection = "desc"
    /\ filters = NoFilters
    /\ searchTimeoutRef = 0
    /\ timers = <<>>
    /\ runs = <<>>
    /\ timeoutsSet = 0
    /\ lastWriter = 0
    /\ mounted = FALSE
    /\ request \in Requests
    /\ upstream = <<>>
    /\ response = NoResponse

NextServer == OnchainGET \/ SentimentGET

SpecServer == InitServer /\ [][NextServer]_vars

-----------------------------------------------------------------------------
(* Claims about the ordering engine and the score (SpecSort).              *)

Pinned(rec) == rec.id \in watchlist

\* C1: in the displayed list every record whose id is in the watchlist comes
\* before every record whose id is not, for every sort key and direction.
C1_PinnedFirst ==
    LET shown == filtered
    IN \A i, j \in DOMAIN shown :
            Pinned(shown[i]) /\ ~Pinned(shown[j]) => i < j

\* A pinned record is displayed ahead of a record that the sort key alone,
\* ascending by price, would put first.
C1_Witness ==
    /\ sortField = "price"
    /\ sortDirection = "asc"
    /\ LET shown == filtered
       IN \E i, j \in DOMAIN shown :
            /\ i < j
            /\ Pinned(shown[i]) /\ ~Pinned(shown[j])
            /\ shown[i].current_price > shown[j].current_price

OptionalFields ==
    {"price_change_percentage_24h", "price_change_percentage_7d_in_currency",
     "market_cap", "total_volume", "bullishScore", "bearishScore",
     "mentionVolume", "liquidity", "holders", "alerts"}

\* The value of a numeric field, a missing one counting as 0
Val(rec, k) == IF k \in DOMAIN rec THEN rec[k] ELSE 0

\* ScoreScale times (1 - b) * c24 + b * c7 + (bull - bear) / 10 + holders / 10000
\* with b = bias / BiasScale
ScoreOf(rec, bias) ==
    (ScoreScale * ((BiasScale - bias) * Val(rec, "price_change_percentage_24h")
                     + bias * Val(rec, "price_change_percentage_7d_in_currency")))
            \div BiasScale
      + (ScoreScale * (Val(rec, "bullishScore") - Val(rec, "bearishScore"))) \div 10
      + (ScoreScale * Val(rec, "holders")) \div 10000

IsExample(rec) ==
    /\ Val(rec, "price_change_percentage_24h") = 10
    /\ Val(rec, "price_change_percentage_7d_in_currency") = -2
    /\ Val(rec, "bullishScore") = 60
    /\ Val(rec, "bearishScore") = 20
    /\ Val(rec, "holders") = 20000

\* C7: the score of every displayed record is the momentum, sentiment and
\* breadth formula at the current bias with missing fields as 0; a record
\* with no optional field scores 0, and the example record scores 10 at 0.5.
C7_ScoreFormula ==
    \A rec \in Range(filtered) :
           /\ rec.score = ScoreOf(rec, riskBias)
           /\ DOMAIN rec \cap OptionalFields = {} => rec.score = 0
           /\ IsExample(rec) /\ riskBias = 5 => rec.score = 10 * ScoreScale

\* The example record and a record with no optional field are displayed
\* together, at a bias of 0.5, sorted by ascending score: the record that
\* scores 0 comes first.
C7_Witness ==
    /\ riskBias = 5
    /\ sortField = "score" /\ sortDirection = "asc"
    /\ filtered # <<>> /\ filtered[1].score = 0
    /\ \E rec \in Range(filtered) : IsExample(rec) /\ rec.score = 10 * ScoreScale
    /\ \E rec \in Range(filtered) : DOMAIN rec \cap OptionalFields = {}

SameOn(a, b, keys) == \A k \in keys : Val(a, k) = Val(b, k)

\* C8 as stated: at bias 0 two records that agree on change24h have the same
\* score, and at bias 1 two records that agree on change7d have.
C8_Original ==
    \A a, b \in Range(filtered) :
        /\ riskBias = 0 /\ SameOn(a, b, {"price_change_percentage_24h"})
                => a.score = b.score
        /\ riskBias = BiasScale
              /\ SameOn(a, b, {"price_change_percentage_7d_in_currency"})
                => a.score = b.score

SentimentAndBreadth == {"bullishScore", "bearishScore", "holders"}

\* C8 amended: at bias 0 the score does not depend on change7d and at bias 1
\* not on change24h: records that agree on the other change and on bullish,
\* bearish and holders have the same score.
C8_MomentumOnly ==
    \A a, b \in Range(filtered) :
        /\ riskBias = 0
              /\ SameOn(a, b, {"price_change_percentage_24h"} \cup SentimentAndBreadth)
                => a.score = b.score
        /\ riskBias = BiasScale
              /\ SameOn(a, b, {"price_change_percentage_7d_in_currency"}
                                    \cup SentimentAndBreadth)
                => a.score = b.score

\* At bias 0 two displayed records agree on change24h, bullish, bearish and
\* holders and differ in change7d.
C8_Witness ==
    /\ riskBias = 0
    /\ \E a, b \in Range(filtered) :
            /\ SameOn(a, b, {"price_change_percentage_24h"} \cup SentimentAndBreadth)
            /\ Val(a, "price_change_percentage_7d_in_currency")
                    # Val(b, "price_change_percentage_7d_in_currency")
            /\ a.score = b.score
            /\ a.score # 0

-----------------------------------------------------------------------------
(* Claims about the filter engine (SpecFilter).                            *)

MinKeys == {"minPrice", "min24h", "min7d", "minVolume", "minMarketCap",
            "minBullish", "minLiquidity", "minHolders"}

\* The field that each bound constrains
BoundField ==
    [minPrice |-> "current_price", maxPrice |-> "current_price",
     min24h |-> "price_change_percentage_24h",
     max24h |-> "price_change_percentage_24h",
     min7d |-> "price_change_percentage_7d_in_currency",
     max7d |-> "price_change_percentage_7d_in_currency",
     minVolume |-> "total_volume", minMarketCap |-> "market_cap",
     minBullish |-> "bullishScore", maxBearish |-> "bearishScore",
     minLiquidity |-> "liquidity", minHolders |-> "holders"]

\* A whole number in decimal digits, with an optional minus sign
PlainNumber(text) ==
    LET digits == IF text # <<>> /\ Head(text) = "-" THEN Tail(text) ELSE text
    IN digits # <<>> /\ \A i \in DOMAIN digits : IsDigit(digits[i])

PlainValue(text) ==
    IF Head(text) = "-" THEN 0 - DigitsValue(Tail(text)) ELSE DigitsValue(text)

\* Every bound is empty or a plain number
PlainFilters == \A k \in FilterKeys : filters[k] = <<>> \/ PlainNumber(filters[k])

\* The text predicate of the claim
TextOk(rec) ==
    LET q == toLowerCase(trim(search))
    IN \/ q = <<>>
       \/ includes(toLowerCase(rec.name), q)
       \/ includes(toLowerCase(rec.symbol), q)

\* Every bound that is set holds, inclusively, with a missing field as 0
BoundsOk(rec) ==
    \A k \in FilterKeys :
        filters[k] # <<>> =>
            IF k \in MinKeys
            THEN Val(rec, BoundField[k]) >= PlainValue(filters[k])
            ELSE Val(rec, BoundField[k]) <= PlainValue(filters[k])

\* C9: with every bound empty or a number, a stored record is displayed if
\* and only if it passes the text predicate and every bound that is set.
C9_FilterPredicate ==
    PlainFilters =>
        IdsOf(filtered) = {rec.id : rec \in {x \in Range(assets) : TextOk(x) /\ BoundsOk(x)}}

\* Two bounds are set and the search box is blank: a record whose price
\* equals the minimum is displayed, another passes the price bound and is
\* left out only because its volume is unknown.
C9_Witness ==
    /\ filters.minPrice = <<"5">>
    /\ filters.minVolume = <<"5">>
    /\ search = <<>>
    /\ \E rec \in Range(filtered) : rec.current_price = 5
    /\ \E rec \in Range(assets) :
            /\ rec.current_price >= 5
            /\ "total_volume" \notin DOMAIN rec
            /\ rec.id \notin IdsOf(filtered)

\* The ids displayed under the filters f
KeptUnder(f) == {rec.id : rec \in {x \in Range(assets) : MatchesUnder(x, f, search)}}

\* Length of the exponent part at the head of s, 0 if there is none
ExponentLength(s) ==
    IF s # <<>> /\ Head(s) \in {"e", "E"}
    THEN LET r == Tail(s)
             signed == r # <<>> /\ Head(r) \in {"+", "-"}
             d == IF signed THEN Tail(r) ELSE r
         IN IF DigitRun(d) > 0 THEN 1 + (IF signed THEN 1 ELSE 0) + DigitRun(d) ELSE 0
    ELSE 0

\* The text, as a whole, is the decimal numeral of a finite number
FiniteNumeral(text) ==
    LET u == IF text # <<>> /\ Head(text) \in {"+", "-"} THEN Tail(text) ELSE text
        ni == DigitRun(u)
        rest == Drop(u, ni)
        hasDot == rest # <<>> /\ Head(rest) = "."
        nf == IF hasDot THEN DigitRun(Tail(rest)) ELSE 0
        tail == IF hasDot THEN Drop(rest, 1 + nf) ELSE rest
    IN ni + nf > 0 /\ ExponentLength(tail) = Len(tail)

\* C10 as stated: a bound whose text is not the numeral of a finite number
\* constrains nothing: the displayed records are those displayed with that
\* bound empty.
C10_Original ==
    \A k \in FilterKeys :
        ~FiniteNumeral(filters[k]) =>
            KeptUnder(filters) = KeptUnder([filters EXCEPT ![k] = <<>>])

-----------------------------------------------------------------------------
(* Claims about the merge (SpecRun) and the refresh runs (Spec).           *)

\* The entries of an auxiliary body whose id a price list holds
Own(body, priceData) ==
    LET keep(entry) == entry.id \in IdsOf(priceData)
    IN SelectSeq(body, keep)

\* What a run publishes when the bodies hold no entry of a foreign id
PublishedOwn(priceData, sRes, oRes, nRes) ==
    LET merged == Merge(priceData,
                        Own(BodyOrEmpty(sRes, SentimentBody), priceData),
                        Own(BodyOrEmpty(oRes, OnchainBody), priceData))
    IN IF nRes = "ok" THEN WithNews(merged, Own(NewsBody, priceData)) ELSE merged

\* C5: the list a run publishes has one record per record of its price
\* list, in the same order and with the same id (none for an empty price
\* list), and is the list it would publish without the entries of ids that
\* the price list does not hold.
C5_OnePerPriceRecord ==
    [][lastWriter' # lastWriter =>
        LET f == runs[lastWriter']
        IN /\ Len(assets') = Len(f.priceData)
           /\ \A i \in DOMAIN f.priceData : assets'[i].id = f.priceData[i].id
           /\ \A n \in Outcomes :
                NewsSettle(lastWriter', n) =>
                    assets' = PublishedOwn(f.priceData, f.sentimentRes, f.onchainRes, n)
      ]_vars

\* A run has published three merged records, the sentiment, on-chain and
\* news bodies (each with an entry for the id "ghost") merged in.
C5_Witness ==
    /\ lastWriter = 3
    /\ Len(assets) = 3
    /\ \E rec \in Range(assets) :
            {"bullishScore", "holders", "alerts"} \subseteq DOMAIN rec
    /\ "ghost" \notin IdsOf(assets)

PriceFields ==
    {"id", "symbol", "name", "current_price", "price_change_percentage_24h",
     "price_change_percentage_7d_in_currency", "market_cap", "total_volume"}

\* C6: in the list a run publishes, every field that the price record
\* supplies has the price record's value.
C6_PriceFieldsKept ==
    [][lastWriter' # lastWriter =>
        LET pd == runs[lastWriter'].priceData
        IN \A i \in DOMAIN pd :
            \A k \in PriceFields \cap DOMAIN pd[i] :
                /\ i \in DOMAIN assets'
                /\ k \in DOMAIN assets'[i]
                /\ assets'[i][k] = pd[i][k]
      ]_vars

\* A published record has the fields of a sentiment and an on-chain entry
\* that also carry a price, a name and changes, and has the price record's price.
C6_Witness ==
    /\ lastWriter = 3
    /\ \E rec \in Range(assets) :
            /\ rec.id = "bitcoin"
            /\ {"bullishScore", "holders"} \subseteq DOMAIN rec
            /\ rec.bullishScore = 60
            /\ rec.holders = 20000
            /\ rec.current_price = 5
            /\ rec.price_change_percentage_7d_in_currency = -2

\* C2 as stated: a run whose price fetch fails (rejected, or not ok) leaves
\* the stored list empty.
C2_Original ==
    [][\A r \in DOMAIN runs : \A out \in {Rejected, NotOk} :
            PriceSettle(r, out) => assets' = <<>>
      ]_vars

\* C3 as stated: a run that ends after its price fetch succeeded has
\* published one record per price record, with the fields of the sentiment
\* and on-chain responses that were ok merged in.
C3_Original ==
    [][\A r \in DOMAIN runs :
            runs[r].pc \in {"aux", "news"} /\ runs'[r].pc = "done" =>
                LET f == runs[r]
                    pd == f.priceData
                IN /\ lastWriter' = r
                   /\ Len(assets') = Len(pd)
                   /\ \A i \in DOMAIN pd :
                        /\ f.sentimentRes = "ok" /\ pd[i].id \in IdsOf(SentimentBody)
                                => "bullishScore" \in DOMAIN assets'[i]
                        /\ f.onchainRes = "ok" /\ pd[i].id \in IdsOf(OnchainBody)
                                => "holders" \in DOMAIN assets'[i]
      ]_vars

\* C4 as stated: the run that writes the stored list is the run started
\* last; no earlier run writes once a later one has started.
C4_Original ==
    [][lastWriter' # lastWriter => lastWriter' = Len(runs')]_vars

-----------------------------------------------------------------------------
(* Claims about tightening and widening the bounds (SpecBounds).           *)

\* The bound text v tightens the bound text u of key k: u was absent, or
\* both are numbers and v is a higher minimum or a lower maximum.
Tightens(k, u, v) ==
    \/ u = <<>>
    \/ /\ PlainNumber(u) /\ PlainNumber(v)
       /\ IF k \in MinKeys THEN PlainValue(v) >= PlainValue(u)
          ELSE PlainValue(v) <= PlainValue(u)

\* C11: for the stored list and the filters of every state, and every bound
\* text that tightens one of the bounds, the records retained under the
\* tightened filters are among those retained under the filters.
C11_Monotonic ==
    LET kept == KeptUnder(filters)
    IN \A k \in FilterKeys, v \in BoundTexts :
            Tightens(k, filters[k], v) =>
                KeptUnder([filters EXCEPT ![k] = v]) \subseteq kept

\* A minimum price of -3 retains a record that the raised minimum 5 drops,
\* while a record stays retained under both.
C11_Witness ==
    /\ filters.minPrice = <<"-", "3">>
    /\ IdsOf(filtered) = KeptUnder(filters)
    /\ KeptUnder([filters EXCEPT !.minPrice = <<"5">>]) # {}
    /\ KeptUnder([filters EXCEPT !.minPrice = <<"5">>]) # KeptUnder(filters)

\* The ids of the stored records that pass the text predicate
TextKept == {rec.id : rec \in {x \in Range(assets) : TextOk(x)}}

\* C12 as stated: whenever every bound is empty, the whole stored set is on
\* display.
C12_Original ==
    filters = NoFilters => IdsOf(filtered) = IdsOf(assets)

\* C12: whenever every bound is empty, the stored records that pass the text
\* predicate are on display: all of them when the search text is blank.
C12_RoundTrip ==
    filters = NoFilters =>
        /\ IdsOf(filtered) = TextKept
        /\ toLowerCase(trim(search)) = <<>> => IdsOf(filtered) = IdsOf(assets)

\* One bound is set and keeps a record that passes the text predicate off
\* the display; with the bound emptied again the record is back.
C12_Witness ==
    /\ Cardinality(ActiveBounds(filters)) = 1
    /\ IdsOf(filtered) # TextKept
    /\ KeptUnder(NoFilters) = TextKept
    /\ TextKept # {}

-----------------------------------------------------------------------------
(* Claims about the sort key and the stored list (SpecSort, SpecView).     *)

\* The field behind each numeric sort key
KeyField ==
    [price |-> "current_price", 24h |-> "price_change_percentage_24h",
     7d |-> "price_change_percentage_7d_in_currency", volume |-> "total_volume",
     market_cap |-> "market_cap", bullish |-> "bullishScore",
     bearish |-> "bearishScore", mentions |-> "mentionVolume",
     liquidity |-> "liquidity", holders |-> "holders", score |-> "score"]

\* The numeric key of a displayed record: its field, 0 when missing; for the
\* alert key the rank of its first alert, 0 without alerts or rank
NumKey(rec) ==
    IF sortField = "alert"
    THEN IF "alerts" \in DOMAIN rec /\ rec.alerts # <<>>
              /\ "rank" \in DOMAIN rec.alerts[1]
         THEN rec.alerts[1].rank ELSE 0
    ELSE Val(rec, KeyField[sortField])

\* a may be displayed ahead of b: its key is not greater (ascending) or not
\* less (descending); names compare lowercased, in dictionary order
KeyInOrder(a, b) ==
    IF sortField = "name"
    THEN LET c == localeCompare(toLowerCase(a.name), toLowerCase(b.name))
         IN IF sortDirection = "asc" THEN c <= 0 ELSE c >= 0
    ELSE IF sortDirection = "asc" THEN NumKey(a) <= NumKey(b)
         ELSE NumKey(a) >= NumKey(b)

C14_StoredUntouched ==
    /\ [][assets' = assets]_vars
    /\ [](\A i \in DOMAIN assets : "score" \notin DOMAIN assets[i])
    /\ [](\A rec \in Range(filtered) : "score" \in DOMAIN rec)

\* All four controls have acted: a bound is set, the slider is at 0, the
\* list is sorted by ascending price with a record pinned, and the displayed
\* list is not the stored list.
C14_Witness ==
    /\ filters.minPrice = <<"5">>
    /\ riskBias = 0
    /\ sortField = "price" /\ sortDirection = "asc"
    /\ watchlist # {}
    /\ filtered # <<>>
    /\ Len(filtered) < Len(assets)
    /\ \A i \in DOMAIN assets : "score" \notin DOMAIN assets[i]

-----------------------------------------------------------------------------
(* Claims about the watchlist across refresh runs (SpecWatch).             *)

\* C15: a step that changes the watchlist is a toggleWatch of a displayed
\* row; no step of a refresh run and no change of filter, bias or sort
\* changes it.
C15_WatchlistOnlyByToggle ==
    [][watchlist' # watchlist => \E id \in DisplayedIds : toggleWatch(id)]_vars

\* A run has stored a list since the pin was set, and the pinned id is no
\* longer among the stored records.
C15_Witness ==
    /\ lastWriter = 3
    /\ \E id \in watchlist : id \notin IdsOf(assets)

-----------------------------------------------------------------------------
(* Claims about what a refresh run leaves and when it writes (SpecRun).    *)

\* What the component shows of the outcome of a run: the stored list and the
\* loading flag.  It keeps no error state; failures go to console.error.
Observable == <<assets, loading>>

\* What a search run leaves when the search found no id:
\* `setAssets([])`, then `finally { setLoading(false) }`
NoMatchesObservable == <<<<>>, FALSE>>

\* C16 as stated: the state a search run leaves when its price fetch fails
\* (rejected, or not ok) differs in what can be observed from the state it
\* leaves when the search found no id.
C16_Original ==
    [][\A r \in DOMAIN runs : \A out \in {Rejected, NotOk} :
            runs[r].kind = "search" /\ PriceSettle(r, out)
                => Observable' # NoMatchesObservable
      ]_vars

\* C17 as stated: a run that writes the stored list has none of its own
\* sentiment and on-chain requests pending once the step is taken: at most
\* the one that settles in the step was pending before it.
C17_Original ==
    [][lastWriter' # lastWriter =>
        LET f == runs[lastWriter']
        IN ~(f.sentimentRes = "pending" /\ f.onchainRes = "pending")
      ]_vars

-----------------------------------------------------------------------------
(* Claims about the debounce timer (SpecTimer).                            *)

\* C18: at most one timer is pending; a pending timer is the one set last,
\* for the current search term, in the mounted component, so a timer that a
\* later change of the text or the unmount superseded is never pending and
\* never fires; a search run starts for the current term only.
C18_OneTimer ==
    /\ [](/\ Cardinality(DOMAIN timers) <= 1
          /\ \A h \in DOMAIN timers :
                /\ mounted
                /\ h = searchTimeoutRef /\ h = timeoutsSet
                /\ timers[h] = toLowerCase(trim(search)))
    /\ [][\A r \in DOMAIN runs' \ DOMAIN runs :
            runs'[r].kind = "search" =>
                /\ runs'[r].term = toLowerCase(trim(search))
                /\ \E h \in DOMAIN timers : h = timeoutsSet /\ TimerFire(h)
         ]_vars

\* A burst: a second timer was set before the first fired; only the second
\* is pending and no search has been issued.
C18_Witness ==
    /\ timeoutsSet = 2
    /\ DOMAIN timers = {2}
    /\ \A r \in DOMAIN runs : runs[r].kind = "default"

-----------------------------------------------------------------------------
(* Claims about the order of the auxiliary sources and of the requests     *)
(* (SpecRun).                                                              *)

\* The price records with the sentiment fields spread in first and the
\* on-chain fields second, and the other way round
SentimentThenOnchain(priceData, sentimentData, onchainData) ==
    [i \in 1..Len(priceData) |->
        Spread(Spread(priceData[i], SentimentExtra(priceData[i], IdMap(sentimentData))),
               OnchainExtra(priceData[i], IdMap(onchainData)))]

OnchainThenSentiment(priceData, sentimentData, onchainData) ==
    [i \in 1..Len(priceData) |->
        Spread(Spread(priceData[i], OnchainExtra(priceData[i], IdMap(onchainData))),
               SentimentExtra(priceData[i], IdMap(sentimentData)))]

\* C19: the records a run merges are the price records with the sentiment
\* fields spread in and then the on-chain fields, and equally with the
\* on-chain fields spread in and then the sentiment fields; the two sources
\* write disjoint fields.
C19_OrderIndependent ==
    [][\A r \in DOMAIN runs : \A n \in Outcomes :
            NewsSettle(r, n) =>
                LET f == runs[r]
                    s == BodyOrEmpty(f.sentimentRes, SentimentBody)
                    o == BodyOrEmpty(f.onchainRes, OnchainBody)
                    so == SentimentThenOnchain(f.priceData, s, o)
                    os == OnchainThenSentiment(f.priceData, s, o)
                IN /\ so = os
                   /\ MergedOf(f) = so
                   /\ assets' = IF n = "ok" THEN WithNews(so, NewsBody) ELSE so
                   /\ SentimentKeys \cap OnchainKeys = {}
      ]_vars

\* A run has stored a record with the fields of both sources, one with the
\* sentiment fields only and one with the on-chain fields only.
C19_Witness ==
    /\ lastWriter = 3
    /\ \E a, b, c \in Range(assets) :
            /\ SentimentKeys \cup OnchainKeys \subseteq DOMAIN a
            /\ SentimentKeys \subseteq DOMAIN b /\ DOMAIN b \cap OnchainKeys = {}
            /\ OnchainKeys \subseteq DOMAIN c /\ DOMAIN c \cap SentimentKeys = {}

\* C20: a run comes to have auxiliary requests pending only by a step in
\* which its price request settles with an ok response, and the requests
\* are for the ids of the records of that response, in their order; so is
\* the news request; a run whose price request is rejected or not ok ends
\* in that step.
C20_AuxAfterPrice ==
    [][\A r \in DOMAIN runs :
            /\ runs[r].pc \notin {"aux", "news"} /\ runs'[r].pc \in {"aux", "news"}
                => \E out \in PriceOutcomes(runs[r].ids) :
                        /\ out.status = "ok"
                        /\ PriceSettle(r, out)
                        /\ runs'[r].idStr = [i \in DOMAIN out.body |-> out.body[i].id]
            /\ runs'[r].pc = "news"
                => runs'[r].idStr =
                        [i \in DOMAIN runs'[r].priceData |-> runs'[r].priceData[i].id]
            /\ \A out \in {Rejected, NotOk} :
                    PriceSettle(r, out) => runs'[r].pc = "done"
      ]_vars

\* A default load has its auxiliary requests pending for the ids of the
\* records it got, which are in another order than the ids it asked for.
C20_Witness ==
    \E r \in DOMAIN runs :
        /\ runs[r].kind = "default"
        /\ runs[r].pc = "aux"
        /\ runs[r].idStr # <<>>
        /\ runs[r].idStr # runs[r].ids

-----------------------------------------------------------------------------
(* Claims about the sort header and the alert key (SpecSort).              *)

\* C21: a click on the header of the selected field flips the direction and
\* keeps the field; a click on another header selects that field with the
\* direction descending; so a step that leaves the direction ascending and
\* changed it kept the field, and the field and direction start as
\* (score, descending).
C21_HeaderClick ==
    /\ [](sortField \in SortFields /\ sortDirection \in {"asc", "desc"})
    /\ [][/\ \A field \in SortFields :
                handleSort(field) =>
                    IF field = sortField
                    THEN /\ sortField' = sortField
                         /\ sortDirection' # sortDirection
                    ELSE /\ sortField' = field
                         /\ sortDirection' = "desc"
          /\ sortField' # sortField => sortDirection' = "desc"
          /\ sortDirection' = "asc" /\ sortDirection # "asc"
                => sortField' = sortField
         ]_vars

\* A second click on the price header has turned the direction to ascending.
C21_Witness ==
    /\ sortField = "price"
    /\ sortDirection = "asc"
    /\ watchlist = {}
    /\ riskBias = 5

\* The rank of the first alert of a record, 0 without alerts or rank
FirstRank(rec) ==
    IF "alerts" \in DOMAIN rec /\ rec.alerts # <<>> /\ "rank" \in DOMAIN rec.alerts[1]
    THEN rec.alerts[1].rank ELSE 0

\* C22 as stated: sorted by the alert key, descending, a record whose first
\* alert has rank 1 is displayed ahead of every record of its pin status
\* whose first alert has another rank or that has no alert.
C22_Original ==
    LET shown == filtered
    IN sortField = "alert" /\ sortDirection = "desc" =>
        \A i, j \in DOMAIN shown :
            /\ FirstRank(shown[i]) = 1 /\ FirstRank(shown[j]) # 1
            /\ Pinned(shown[i]) = Pinned(shown[j])
            => i < j

-----------------------------------------------------------------------------
(* Claim about the watchlist toggle (SpecSort). *)

\* The ids of the rows, and one that no row has
ToggleIds == {"bitcoin", "ethereum", "pepe", "dogecoin", "solana"}

\* C26: toggleWatch(id) changes the membership of exactly that id and of no
\* other; from every reached watchlist, toggling an id twice gives the
\* watchlist back, and toggling two different ids gives the same watchlist
\* in either order.
C26_ToggleExactlyOne ==
    /\ [](\A a, b \in ToggleIds :
            /\ Updater(Updater(watchlist, a), a) = watchlist
            /\ a # b => Updater(Updater(watchlist, a), b)
                            = Updater(Updater(watchlist, b), a))
    /\ [][\A id \in ToggleIds :
            toggleWatch(id) =>
                \A x \in ToggleIds \cup watchlist \cup watchlist' :
                    (x \in watchlist') = IF x = id THEN x \notin watchlist
                                         ELSE x \in watchlist
         ]_vars

\* Two rows are pinned and the third is not, after stars were clicked
C26_Witness ==
    /\ Cardinality(watchlist) = 2
    /\ Len(assets) = 3
    /\ sortField = "score" /\ sortDirection = "desc" /\ riskBias = 5

-----------------------------------------------------------------------------
(* Claims about the loading flag and the failure paths of the runs. *)

\* C27: when the search request of a search run fails, by a rejected fetch
\* or by a body without a coins list, that step of the run leaves the stored
\* list as it was, sets loading to false and ends the run.
C27_FailedSearchKeepsList ==
    [][\A r \in DOMAIN runs :
            \A out \in {Rejected, NoCoins} :
                SearchSettle(r, out) =>
                    /\ runs[r].kind = "search"
                    /\ assets' = assets
                    /\ lastWriter' = lastWriter
                    /\ loading' = FALSE
                    /\ runs'[r].pc = "done"
      ]_vars

\* A search run has ended over a stored list that an earlier run published
C27_Witness ==
    /\ Len(runs) = 3
    /\ runs[3] = Ended("search")
    /\ lastWriter = 2
    /\ assets # <<>>
    /\ loading = FALSE

\* C28: whenever a refresh run is in flight, loading is true.
C28_Original == InFlight # {} => loading = TRUE

-----------------------------------------------------------------------------
(* Claim about the displayed list as a whole (SpecView). *)

\* A stored record as its row shows it: with the score for the current bias
Row(rec) ==
    [k \in DOMAIN rec \cup {"score"} |->
        IF k = "score" THEN ScoreOf(rec, riskBias) ELSE rec[k]]

\* C30: the displayed list holds exactly the stored records that pass the
\* text predicate and every bound that is set, each as many times as it is
\* stored and with the score for the current risk bias, and nothing else;
\* a pinned record that fails the filter is not among them.
C30_DisplayedExactly ==
    LET shown == filtered
        passing == {j \in DOMAIN assets : TextOk(assets[j]) /\ BoundsOk(assets[j])}
    IN /\ Len(shown) = Cardinality(passing)
       /\ \A j \in passing :
            Cardinality({i \in DOMAIN shown : shown[i] = Row(assets[j])})
                = Cardinality({m \in passing : Row(assets[m]) = Row(assets[j])})
       /\ \A i \in DOMAIN shown : \E j \in passing : shown[i] = Row(assets[j])
       /\ \A j \in DOMAIN assets \ passing :
            \A i \in DOMAIN shown : shown[i].id # assets[j].id

\* A pinned record is hidden by the minimum price while two others are
\* displayed, sorted by price, with the slider off its middle
C30_Witness ==
    /\ filters.minPrice = <<"5">>
    /\ \E rec \in Range(assets) : rec.id \in watchlist /\ rec.current_price < 5
    /\ Len(filtered) = 2
    /\ sortField = "price"
    /\ riskBias = 0

-----------------------------------------------------------------------------
(* Claim about the price request of a search run (SpecRun). *)

\* C24: a search run that waits for its price response asked for between 1
\* and 10 ids; when its search request returns a coins list, the run asks
\* the prices of the first ids of that list, in the order of the list and
\* at most 10 of them, and when the list is empty it asks no prices, stores
\* the empty list and ends.
C24_PriceRequestIds ==
    /\ [](\A r \in DOMAIN runs :
            runs[r].kind = "search" /\ runs[r].pc = "price" =>
                Len(runs[r].ids) >= 1 /\ Len(runs[r].ids) <= 10)
    /\ [][\A r \in DOMAIN runs :
            \A coins \in SearchBodies :
                SearchSettle(r, Ok(coins)) =>
                    IF coins = <<>>
                    THEN /\ assets' = <<>>
                         /\ runs'[r].pc = "done"
                         /\ loading' = FALSE
                    ELSE /\ runs'[r].pc = "price"
                         /\ Len(runs'[r].ids) = IF Len(coins) < 10 THEN Len(coins) ELSE 10
                         /\ \A i \in DOMAIN runs'[r].ids : runs'[r].ids[i] = coins[i].id
                         /\ assets' = assets
         ]_vars

\* A search run waits for the prices of ten ids, the second of them bitcoin:
\* its coins list was longer than the cap
C24_Witness ==
    \E r \in DOMAIN runs :
        /\ runs[r].kind = "search"
        /\ runs[r].pc = "price"
        /\ Len(runs[r].ids) = 10
        /\ runs[r].ids[2] = "bitcoin"
        /\ "dogecoin" \notin Range(runs[r].ids)

-----------------------------------------------------------------------------
(* Claim about the end of the runs (SpecLive). *)

\* C29: when every fetch settles, every run that is in flight ends; the
\* step that ends a run sets loading to false, whichever path the run took;
\* and once runs have started and none is in flight, loading is false.
C29_RunsEnd ==
    /\ \A r \in 1..MaxRuns :
            (r \in InFlight) ~> (r \in DOMAIN runs /\ runs[r].pc = "done")
    /\ [][\A r \in InFlight : r \notin InFlight' => loading' = FALSE]_vars
    /\ [](runs # <<>> /\ InFlight = {} => loading = FALSE)

\* The two default loads of the mount have both ended without storing a
\* list, and loading is false
C29_Witness ==
    /\ Len(runs) = 2
    /\ InFlight = {}
    /\ lastWriter = 0
    /\ assets = <<>>
    /\ loading = FALSE

-----------------------------------------------------------------------------
(* Claims about the API routes (SpecServer). *)

\* C23: every entry of a successful /api/onchain response has liquidity
\* between 500,000 and 1,500,000 and holders between 1,000 and 51,000.
C23_Original ==
    request.route = "onchain" /\ response.status = 200 =>
        \A i \in DOMAIN response.body :
            /\ response.body[i].liquidity >= 500000
            /\ response.body[i].liquidity <= 1500000
            /\ response.body[i].holders >= 1000
            /\ response.body[i].holders <= 51000

\* The ids of a body, joined by commas
RECURSIVE JoinedIds(_)
JoinedIds(body) ==
    IF Len(body) = 0 THEN <<>>
    ELSE IF Len(body) = 1 THEN body[1].id
    ELSE body[1].id \o <<",">> \o JoinedIds(Tail(body))

\* The fallback values of the ids of the requests, and of the empty id:
\* bullishScore, bearishScore, mentionVolume
FallbackValues(id) ==
    CASE id = <<"b","i","t","c","o","i","n">> -> <<11, 55, 837>>
      [] id = <<"e","t","h","e","r","e","u","m">> -> <<60, 7, 4435>>
      [] id = <<"p","e","p","e">> -> <<64, 78, 4672>>
      [] id = <<"d","o","g","e","c","o","i","n">> -> <<58, 53, 5560>>
      [] id = <<>> -> <<27, 0, 2233>>

\* C25: a request to /api/sentiment with a non-empty ids parameter is
\* answered with status 200 and one entry per id of the parameter, in the
\* order of the parameter, whatever the requests to CoinGecko came to; the
\* entry of an id whose request failed holds the fallback values of that
\* id, the same wherever the id stands and whatever the other ids are, with
\* bullish and bearish scores from 0 to 100.
C25_OneEntryPerId ==
    request.route = "sentiment" /\ response # NoResponse
        /\ request.hasIds /\ request.ids # <<>> =>
            /\ response.status = 200
            /\ Len(response.body) = Len(upstream)
            /\ Len(response.body)
                = 1 + Cardinality({i \in DOMAIN request.ids : request.ids[i] = ","})
            /\ JoinedIds(response.body) = request.ids
            /\ \A i \in DOMAIN response.body :
                LET entry == response.body[i]
                IN upstream[i] = Failed =>
                    /\ <<entry.bullishScore, entry.bearishScore, entry.mentionVolume>>
                            = FallbackValues(entry.id)
                    /\ entry.bullishScore \in 0..100
                    /\ entry.bearishScore \in 0..100

\* Of two ids the request for pepe failed and the one for bitcoin did not:
\* the response has the fallback entry of pepe, then the votes of bitcoin
C25_Witness ==
    /\ request.route = "sentiment"
    /\ request.ids = <<"p","e","p","e",",","b","i","t","c","o","i","n">>
    /\ upstream = <<Failed, Votes>>
    /\ response.status = 200
    /\ response.body[1].bullishScore = 64
    /\ response.body[2].bullishScore = 81

=============================================================================
